---- MODULE Spec2Model ----
(***************************************************************************)
(* Model of romshark/plugger: a host process calling named operations on   *)
(* a plugin child process over the child's stdin/stdout with one JSON      *)
(* envelope per line.  Host side: Call, Close, RunPlugin and the reader    *)
(* loop Host.run.  Plugin side: Plugin.Run and Plugin.dispatch.            *)
(***************************************************************************)
EXTENDS Integers, Sequences, FiniteSets, TLC

VARIABLES
  running,      \* Host.running
  wgRun,        \* Host.wgRun counter
  idCounter,    \* Host.idCounter
  pending,      \* Host.pending: id -> number of the call owning the slot
  chans,        \* the slots (chan envelope, 1): call number -> [buf, closed]
  runPc,        \* position of RunPlugin / Host.run
  runErr,       \* value returned by RunPlugin
  closedUpTo,   \* idCounter when Host.run closed the slots, -1 before
  closePc,      \* position of Host.Close
  closeLog,     \* what the Close calls did so far: flips, stdin, waits
  call,         \* per calling goroutine: position and locals of Call
  calls,        \* number of Calls invoked so far
  toPlugin,     \* bytes written to the plugin's stdin and not yet read
  stdinClosed,  \* the host closed the plugin's stdin
  toHost,       \* bytes written to the plugin's stdout and not yet read
  proc,         \* the plugin process: "none", "alive", "exited"
  noise,        \* the plugin wrote a line that is not an envelope
  cancel,       \* Plugin.cancel: id -> cancel function
  tasks,        \* dispatch goroutines, in the order Run started them
  registry,     \* Plugin.endpoints: method name -> handler
  pRunning,     \* Plugin.running
  pPanic,       \* the message of the panic in the plugin's main, "" if none
  handle,       \* the Handle call in progress in the plugin's main
  hostCtxDone,  \* the context passed to RunPlugin is done
  rootDone,     \* the context passed to Plugin.Run is done
  runRet,       \* the values Plugin.Run returned
  rp,           \* per invocation of RunPlugin: its position
  spawned,      \* number of plugin processes cmd.Start has started
  hostPanic     \* the message of the panic in the host process, "" if none

vars == <<running, wgRun, idCounter, pending, chans, runPc, runErr, closedUpTo, closePc,
          closeLog, call, calls, toPlugin, stdinClosed, toHost, proc, noise, cancel, tasks,
          registry, pRunning, pPanic, handle, hostCtxDone, rootDone, runRet,
          rp, spawned, hostPanic>>

hostVars == <<running, wgRun, idCounter, pending, chans, runPc, runErr,
              closedUpTo, closePc, closeLog>>
pipeVars == <<toPlugin, stdinClosed, toHost, proc, noise>>
pluginVars == <<cancel, tasks>>
setupVars == <<registry, pRunning, pPanic, handle>>
rootVars == <<hostCtxDone, rootDone, runRet>>
lifeVars == <<rp, spawned, hostPanic>>

----------------------------------------------------------------------------
(* Bounds *)

\* total number of Calls invoked
MaxCalls == 2
\* number of goroutines that invoke Call
NCallers == 2
MaxFeed == 3
MaxRuns == 2

Callers == 1..NCallers
Runs == 1..MaxRuns

----------------------------------------------------------------------------
(* Go values and encoding/json *)

GoInt(n) == [t |-> "int", n |-> n, s |-> ""]
GoStr(s) == [t |-> "string", n |-> 0, s |-> s]
JNum(n) == [t |-> "number", n |-> n, s |-> ""]
JStr(s) == [t |-> "string", n |-> 0, s |-> s]

NoFields == [k \in {} |-> GoInt(0)]

\* the struct types of the tests and test plugins: JSON key -> Go kind
Schema(ty) ==
  CASE ty = "AddReq" -> [a |-> "int", b |-> "int"]
    [] ty = "MalformedReq" -> [a |-> "string", b |-> "int"]
    [] ty = "AddResp" -> [sum |-> "int"]
    [] ty = "MalformedResponse" -> [sum |-> "string"]
    [] OTHER -> NoFields

ZeroOf(kind) == IF kind = "int" THEN GoInt(0) ELSE GoStr("")

Zero(ty) == [ty |-> ty, nil |-> ty = "any",
             f |-> [k \in DOMAIN Schema(ty) |-> ZeroOf(Schema(ty)[k])]]

\* json.RawMessage: no bytes, or an object
NoData == [k |-> "none", o |-> NoFields]

ToJSON(x) == IF x.t = "int" THEN JNum(x.n) ELSE JStr(x.s)

\* json.Marshal of a struct value
Marshal(v) == [k |-> "obj", o |-> [key \in DOMAIN v.f |-> ToJSON(v.f[key])]]

JSONKindOf(kind) == IF kind = "int" THEN "number" ELSE "string"

FromJSON(j, kind) == IF kind = "int" THEN GoInt(j.n) ELSE GoStr(j.s)

\* json.Unmarshal(raw, &v) for v of type ty: the error text ("" for nil)
\* and the value left in v
Unmarshal(raw, ty) ==
  IF raw.k = "none"
  THEN [err |-> "unexpected end of JSON input", v |-> Zero(ty)]
  ELSE LET sch == Schema(ty)
           got == DOMAIN sch \cap DOMAIN raw.o
           bad == {key \in got : raw.o[key].t # JSONKindOf(sch[key])}
           val == [ty |-> ty, nil |-> FALSE,
                   f |-> [key \in DOMAIN sch |->
                            IF key \in got \ bad
                            THEN FromJSON(raw.o[key], sch[key])
                            ELSE ZeroOf(sch[key])]]
       IN IF bad = {}
          THEN [err |-> "", v |-> val]
          ELSE LET key == CHOOSE k \in bad : TRUE
               IN [err |-> "json: cannot unmarshal " \o raw.o[key].t
                            \o " into Go struct field " \o ty \o "." \o key
                            \o " of type " \o sch[key],
                   v |-> val]

----------------------------------------------------------------------------
(* envelope and its wire form *)

Envelope(c, i, m, e, d) ==
  [Cancel |-> c, ID |-> i, Method |-> m, Error |-> e, Data |-> d]

NoEnvelope == Envelope("", "", "", "", NoData)

\* json.Encoder.Encode(envelope): one line holding the keys that are not
\* omitted; "cancel" and "id" carry no omitempty tag
EncodeEnvelope(e) ==
  [ok |-> TRUE,
   keys |-> {"cancel", "id"}
            \cup (IF e.Method # "" THEN {"method"} ELSE {})
            \cup (IF e.Error # "" THEN {"err"} ELSE {})
            \cup (IF e.Data.k # "none" THEN {"data"} ELSE {}),
   v |-> e]

\* json.Decoder.Decode(&envelope) of a well-formed line
DecodeEnvelope(w) ==
  Envelope(IF "cancel" \in w.keys THEN w.v.Cancel ELSE "",
           IF "id" \in w.keys THEN w.v.ID ELSE "",
           IF "method" \in w.keys THEN w.v.Method ELSE "",
           IF "err" \in w.keys THEN w.v.Error ELSE "",
           IF "data" \in w.keys THEN w.v.Data ELSE NoData)

\* a line on the plugin's stdout that does not parse as JSON
NoiseLine == [ok |-> FALSE, keys |-> {}, v |-> NoEnvelope]

HexDigit == <<"0", "1", "2", "3", "4", "5", "6", "7",
              "8", "9", "a", "b", "c", "d", "e", "f">>

RECURSIVE Hex(_)
\* fmt.Sprintf("%x", n)
Hex(n) == IF n < 16 THEN HexDigit[n + 1]
          ELSE Hex(n \div 16) \o HexDigit[(n % 16) + 1]

----------------------------------------------------------------------------
(* maps and slots *)

MapPut(m, k, v) == [x \in DOMAIN m \cup {k} |-> IF x = k THEN v ELSE m[x]]
MapDelete(m, k) == [x \in DOMAIN m \ {k} |-> m[x]]
NoEntries == [x \in {} |-> 0]

\* make(chan envelope, 1)
NewSlot == [buf |-> <<>>, closed |-> FALSE]

----------------------------------------------------------------------------
(* the handlers registered with Handle *)

HandlerResult(isErr, msg, val) == [isErr |-> isErr, msg |-> msg, val |-> val]
NoResult == HandlerResult(FALSE, "", Zero("struct{}"))

\* "add" of the cancel test plugin: checks its context after the sleep
AddHandler(ctxDone, req) ==
  IF ctxDone
  THEN HandlerResult(TRUE, "context canceled", Zero("AddResp"))
  ELSE HandlerResult(FALSE, "",
         [ty |-> "AddResp", nil |-> FALSE,
          f |-> [sum |-> GoInt(req.f.a.n + req.f.b.n)]])

\* "simulated_error" of the test plugin
SimulatedErrorHandler(ctxDone, req) ==
  HandlerResult(TRUE, "simulated error", Zero("struct{}"))

\* "malformed_response": a string where the host expects an int
MalformedResponseHandler(ctxDone, req) ==
  HandlerResult(FALSE, "",
    [ty |-> "MalformedResponse", nil |-> FALSE, f |-> [sum |-> GoStr("wrong")]])

\* a handler whose error has the empty message, errors.New("")
EmptyErrorHandler(ctxDone, req) ==
  HandlerResult(TRUE, "", Zero("struct{}"))

\* a handler of result type any that returns nil, nil
NilResultHandler(ctxDone, req) ==
  HandlerResult(FALSE, "", Zero("any"))

\* Plugin.endpoints after the Handle calls: method -> request type, function
endpoints ==
  [add |-> [req |-> "AddReq", fn |-> "add"],
   simulated_error |-> [req |-> "struct{}", fn |-> "simulated_error"],
   malformed_response |-> [req |-> "AddReq", fn |-> "malformed_response"],
   empty_error |-> [req |-> "struct{}", fn |-> "empty_error"],
   notify |-> [req |-> "struct{}", fn |-> "notify"]]

Apply(fn, ctxDone, req) ==
  CASE fn = "add" -> AddHandler(ctxDone, req)
    [] fn = "simulated_error" -> SimulatedErrorHandler(ctxDone, req)
    [] fn = "malformed_response" -> MalformedResponseHandler(ctxDone, req)
    [] fn = "empty_error" -> EmptyErrorHandler(ctxDone, req)
    [] OTHER -> NilResultHandler(ctxDone, req)

\* the closure Handle stores: unmarshal the payload, then call fn
Handle(h, ctxDone, raw) ==
  LET u == Unmarshal(raw, h.req)
  IN IF u.err # ""
     THEN HandlerResult(TRUE, u.err, Zero("struct{}"))
     ELSE Apply(h.fn, ctxDone, u.v)

----------------------------------------------------------------------------
(* Plugin setup: Handle and the entry of Run *)

\* no Handle call in progress
IdleHandle == [pc |-> "idle", name |-> "", h |-> [req |-> "", fn |-> ""]]

\* the names main registers handlers under
HandleNames == {"add", "notify"}

\* the handlers main passes to Handle
HandleFns == {endpoints.add, endpoints.notify, endpoints.simulated_error}

\* a Handle that registers whether or not Run was invoked
NeverFrozen == FALSE

\* Handle: if p.running.Load()
Frozen == pRunning

\* Handle(p, name, fn) is called: it panics if Run was invoked
HandleCheck(name, h) ==
  /\ pPanic = ""
  /\ handle.pc = "idle"
  /\ IF Frozen
     THEN /\ pPanic' = "add handlers before invoking Run"
          /\ UNCHANGED handle
     ELSE /\ handle' = [pc |-> "checked", name |-> name, h |-> h]
          /\ UNCHANGED pPanic
  /\ UNCHANGED <<lifeVars, registry, pRunning, rootVars, hostVars, call, calls, pipeVars,
                 pluginVars>>

\* Handle: p.endpoints[name] = the closure around fn
HandleStore ==
  /\ pPanic = ""
  /\ handle.pc = "checked"
  /\ registry' = MapPut(registry, handle.name, handle.h)
  /\ handle' = IdleHandle
  /\ UNCHANGED <<lifeVars, pRunning, pPanic, rootVars, hostVars, call, calls, pipeVars,
                 pluginVars>>

\* Run is entered: p.running.Swap(true), a panic if it was set
PluginRunStart ==
  /\ pPanic = ""
  /\ IF pRunning
     THEN pPanic' = "plugin is already running"
     ELSE UNCHANGED pPanic
  /\ pRunning' = TRUE
  /\ UNCHANGED <<lifeVars, registry, handle, rootVars, hostVars, call, calls, pipeVars,
                 pluginVars>>

----------------------------------------------------------------------------
(* Call *)

GoStruct(ty, f) == [ty |-> ty, nil |-> FALSE, f |-> f]

CallInput(m, req, resp) == [method |-> m, req |-> req, resp |-> resp]

\* the AddReq values: those of the tests and zero fields
AddReqs ==
  { GoStruct("AddReq", [a |-> GoInt(x), b |-> GoInt(y)]) : x \in {0, 2}, y \in {0, 3} }

\* the calls of the tests, and one call of each further handler
CallInputs ==
  { CallInput("add", v, "AddResp") : v \in AddReqs } \cup
  { CallInput("simulated_error", GoStruct("struct{}", NoFields), "struct{}"),
    CallInput("does_not_exist", GoStruct("AddReq", [a |-> GoInt(1), b |-> GoInt(1)]), "AddResp"),
    CallInput("add", GoStruct("MalformedReq", [a |-> GoStr("2"), b |-> GoInt(3)]), "AddResp"),
    CallInput("malformed_response", GoStruct("AddReq", [a |-> GoInt(1), b |-> GoInt(1)]), "AddResp"),
    CallInput("empty_error", GoStruct("struct{}", NoFields), "struct{}"),
    CallInput("notify", GoStruct("struct{}", NoFields), "any") }

Outcome(kind, msg, val) == [kind |-> kind, msg |-> msg, val |-> val]
NoOutcome == Outcome("none", "", Zero("struct{}"))

IdleCall ==
  [pc |-> "idle", n |-> 0, id |-> "", in |-> CHOOSE i \in CallInputs : TRUE,
   ctxDone |-> FALSE, late |-> FALSE, branch |-> "", sawClosed |-> FALSE,
   got |-> NoEnvelope, out |-> NoOutcome]

\* a write to the plugin's stdin fails once the host closed it or the
\* plugin is gone
StdinBroken == stdinClosed \/ proc = "exited"

\* a Call that returns what json.Unmarshal left in the result, error or not
ResultUnchecked(ev, respTy) ==
  IF ev.Error # ""
  THEN Outcome("ErrorResponse", ev.Error, Zero(respTy))
  ELSE Outcome("ok", "", Unmarshal(ev.Data, respTy).v)

\* what Call returns for the envelope it took from its slot
Result(ev, respTy) ==
  IF ev.Error # ""
  THEN Outcome("ErrorResponse", ev.Error, Zero(respTy))
  ELSE LET u == Unmarshal(ev.Data, respTy)
       IN IF u.err # ""
          THEN Outcome("ErrMalformedResponse", "malformed response: " \o u.err, u.v)
          ELSE Outcome("ok", "", u.v)

\* Host.run has returned on a Decode error and Close was not called
StreamEnded ==
  runPc = "returned" /\ closedUpTo >= 0 /\ closePc = "idle" /\ running

\* a goroutine invokes Call with arguments in and reaches h.wgRun.Wait();
\* goroutines are taken in order, which leaves out only renamings of them
CallInvoke(c, in) ==
  /\ call[c].pc \in {"idle", "done"}
  /\ calls < MaxCalls
  /\ \A d \in Callers : d < c => call[d].pc # "idle"
  /\ call' = [call EXCEPT ![c] =
                [IdleCall EXCEPT !.pc = "wait", !.in = in, !.late = StreamEnded]]
  /\ calls' = calls + 1
  /\ UNCHANGED <<lifeVars, setupVars, rootVars,
                 hostVars, pipeVars, pluginVars>>

\* a Call that does not wait for RunPlugin
NoWait == TRUE

\* h.wgRun.Wait() returns
Released == wgRun = 0

\* a counter that stays at its first value
AddOnce(n) == IF n = 0 THEN 1 ELSE n

\* h.idCounter.Add(1): the new value of the counter
Add(n) == n + 1

\* h.wgRun.Wait() returned; then h.running.Load(), idCounter.Add(1) and
\* h.pending[id] = wait
CallStart(c) ==
  /\ call[c].pc = "wait"
  /\ Released
  /\ IF running
     THEN /\ idCounter' = Add(idCounter)
          /\ pending' = MapPut(pending, Hex(idCounter'), idCounter')
          /\ chans' = MapPut(chans, idCounter', NewSlot)
          /\ call' = [call EXCEPT ![c].pc = "send", ![c].n = idCounter',
                                  ![c].id = Hex(idCounter')]
     ELSE /\ call' = [call EXCEPT ![c].pc = "done",
                        ![c].out = Outcome("ErrClosed", "closed", Zero(call[c].in.resp))]
          /\ UNCHANGED <<idCounter, pending, chans>>
  /\ UNCHANGED <<lifeVars, setupVars, rootVars,
                 running, wgRun, runPc, runErr, closedUpTo, closePc, closeLog, calls,
                 pipeVars, pluginVars>>

\* a request whose payload is the zero value, not the caller's
RequestZero(id, in) == Envelope("", id, in.method, "", Marshal(Zero(in.req.ty)))

\* the request envelope of a Call
Request(id, in) == Envelope("", id, in.method, "", Marshal(in.req))

\* h.enc.Encode(envelope{ID: id, Method: method, Data: raw})
CallSend(c) ==
  /\ call[c].pc = "send"
  /\ IF StdinBroken
     THEN /\ call' = [call EXCEPT ![c].pc = "done", ![c].branch = "send",
                        ![c].sawClosed = chans[call[c].n].closed,
                        ![c].out = Outcome("write", "write error", Zero(call[c].in.resp))]
          /\ UNCHANGED toPlugin
     ELSE /\ toPlugin' = Append(toPlugin, EncodeEnvelope(Request(call[c].id, call[c].in)))
          /\ call' = [call EXCEPT ![c].pc = "select"]
  /\ UNCHANGED <<lifeVars, setupVars, rootVars,
                 hostVars, calls, stdinClosed, toHost, proc, noise, pluginVars>>

\* case ev, ok := <-wait.  The slot is garbage once Call has returned and
\* the table does not hold it, and is dropped from chans
CallRecv(c) ==
  /\ call[c].pc = "select"
  /\ LET slot == chans[call[c].n]
     IN /\ slot.buf # <<>> \/ slot.closed
        /\ pending' = MapDelete(pending, call[c].id)
        /\ chans' = MapDelete(chans, call[c].n)
        /\ IF slot.buf # <<>>
           THEN call' = [call EXCEPT ![c].pc = "done", ![c].branch = "recv",
                           ![c].sawClosed = slot.closed, ![c].got = slot.buf[1],
                           ![c].out = Result(slot.buf[1], call[c].in.resp)]
           ELSE call' = [call EXCEPT ![c].pc = "done", ![c].branch = "recv",
                           ![c].sawClosed = slot.closed,
                           ![c].out = Outcome("ErrClosed", "closed", Zero(call[c].in.resp))]
  /\ UNCHANGED <<lifeVars, setupVars, rootVars,
                 running, wgRun, idCounter, runPc, runErr, closedUpTo, closePc, closeLog, calls,
                 pipeVars, pluginVars>>

\* the caller's context is cancelled.  Call reads it only in its select, so
\* a cancelation before the request is written stands for any earlier one,
\* also one before Call was invoked
CtxCancel(c) ==
  /\ call[c].pc \in {"send", "select"}
  /\ ~call[c].ctxDone
  /\ call' = [call EXCEPT ![c].ctxDone = TRUE]
  /\ UNCHANGED <<lifeVars, setupVars, rootVars,
                 hostVars, calls, pipeVars, pluginVars>>

\* the value Call returns in its ctx.Done() case
CancelOutcome(broken, respTy) ==
  IF broken THEN Outcome("write", "write error", Zero(respTy))
  ELSE Outcome("ctx", "context canceled", Zero(respTy))

\* case <-ctx.Done(): delete(h.pending, id), Encode(envelope{Cancel: id})
CallCancel(c) ==
  /\ call[c].pc = "select"
  /\ call[c].ctxDone
  /\ pending' = MapDelete(pending, call[c].id)
  /\ toPlugin' = IF StdinBroken THEN toPlugin
                 ELSE Append(toPlugin,
                        EncodeEnvelope(Envelope(call[c].id, "", "", "", NoData)))
  /\ chans' = MapDelete(chans, call[c].n)
  /\ call' = [call EXCEPT ![c].pc = "done", ![c].branch = "ctx",
                ![c].sawClosed = chans[call[c].n].closed,
                ![c].out = CancelOutcome(StdinBroken, call[c].in.resp)]
  /\ UNCHANGED <<lifeVars, setupVars, rootVars,
                 running, wgRun, idCounter, runPc, runErr, closedUpTo, closePc, closeLog, calls,
                 stdinClosed, toHost, proc, noise, pluginVars>>

----------------------------------------------------------------------------
(* RunPlugin, Host.run and Close *)

\* RunPlugin up to h.wgRun.Done(): the process is started, the host Running.
\* The plugin's main has registered its handlers and entered Run before it
\* reads the first envelope
RunPlugin ==
  /\ runPc = "unstarted"
  /\ ~running
  /\ proc' = "alive"
  /\ registry' = endpoints
  /\ pRunning' = TRUE
  /\ running' = TRUE
  /\ wgRun' = wgRun - 1
  /\ runPc' = "loop"
  /\ UNCHANGED <<lifeVars, pPanic, handle, rootVars,
                 idCounter, pending, chans, runErr, closedUpTo, closePc, closeLog, call,
                 calls, toPlugin, stdinClosed, toHost, noise, pluginVars>>

\* spawn or cmd.Start fails: RunPlugin returns before h.wgRun.Done()
RunPluginFails ==
  /\ runPc = "unstarted"
  /\ ~running
  /\ runPc' = "returned"
  /\ runErr' = "invalid plugin path"
  /\ UNCHANGED <<lifeVars, setupVars, rootVars,
                 running, wgRun, idCounter, pending, chans, closedUpTo, closePc, closeLog,
                 call, calls, pipeVars, pluginVars>>

\* a reader loop that ignores the identifier and takes any pending slot
SlotForAny(ev) ==
  IF pending # NoEntries THEN pending[CHOOSE i \in DOMAIN pending : TRUE] ELSE 0

\* the slot the reader loop sends ev on: h.pending[ev.ID], 0 for nil
SlotFor(ev) == IF ev.ID \in DOMAIN pending THEN pending[ev.ID] ELSE 0

\* Host.run: one envelope decoded and handed to its call's slot
HostRunDeliver ==
  /\ runPc = "loop"
  /\ toHost # <<>>
  /\ Head(toHost).ok
  /\ LET ev == DecodeEnvelope(Head(toHost))
         ch == SlotFor(ev)
     IN IF ch # 0
        THEN /\ Len(chans[ch].buf) < 1
             /\ chans' = [chans EXCEPT ![ch].buf = Append(@, ev)]
        ELSE chans' = chans
  /\ toHost' = Tail(toHost)
  /\ UNCHANGED <<lifeVars, setupVars, rootVars,
                 running, wgRun, idCounter, pending, runPc, runErr, closedUpTo,
                 closePc, closeLog, call, calls, toPlugin, stdinClosed, proc,
                 noise, pluginVars>>

\* a reader loop that returns without closing a slot
NoSlots == {}

\* the slots Host.run closes when Decode fails
SlotsToClose == {pending[i] : i \in DOMAIN pending}

\* the error of h.dec.Decode
DecodeError ==
  IF toHost # <<>> /\ ~Head(toHost).ok THEN "invalid character"
  ELSE IF toHost = <<>> /\ proc = "exited" THEN "EOF"
  ELSE "file already closed"

\* a reader loop that goes on after it closed the slots
LoopGoesOn == "loop"

\* Host.run: return err, after the slots were closed
LoopEnds == "returned"

\* Host.run: Decode fails (a line that is no JSON, the end of the plugin's
\* output, or the pipe closed by cmd.Wait); every pending slot is closed
HostRunFails ==
  /\ runPc = "loop"
  /\ \/ toHost # <<>> /\ ~Head(toHost).ok
     \/ toHost = <<>> /\ proc = "exited"
     \/ closePc = "done"
  /\ chans' = [n \in DOMAIN chans |->
                 IF n \in SlotsToClose THEN [chans[n] EXCEPT !.closed = TRUE]
                 ELSE chans[n]]
  /\ runPc' = LoopEnds
  /\ runErr' = DecodeError
  /\ closedUpTo' = idCounter
  /\ toHost' = <<>>
  /\ UNCHANGED <<lifeVars, setupVars, rootVars,
                 running, wgRun, idCounter, pending, closePc, closeLog, call, calls,
                 toPlugin, stdinClosed, proc, noise, pluginVars>>

\* RunPlugin is invoked: if h.running.Load() it returns ErrAlreadyRunning.
\* Invocations are taken in order, which leaves out only renamings
RunPluginCheck(r) ==
  /\ rp[r] = "idle"
  /\ \A q \in Runs : q < r => rp[q] # "idle"
  /\ rp' = [rp EXCEPT ![r] = IF running THEN "refused" ELSE "checked"]
  /\ UNCHANGED <<spawned, hostPanic, setupVars, rootVars, hostVars, call, calls,
                 pipeVars, pluginVars>>

\* RunPlugin from spawn to h.wgRun.Done(): a process is started on new
\* pipes, encoder, decoder and closer are replaced, the flag is set, and
\* Done panics if the counter is 0 already
RunPluginSpawn(r) ==
  /\ rp[r] = "checked"
  /\ spawned' = spawned + 1
  /\ proc' = "alive"
  /\ toPlugin' = <<>>
  /\ toHost' = <<>>
  /\ stdinClosed' = FALSE
  /\ registry' = endpoints
  /\ pRunning' = TRUE
  /\ running' = TRUE
  /\ wgRun' = wgRun - 1
  /\ IF wgRun = 0
     THEN /\ hostPanic' = "sync: negative WaitGroup counter"
          /\ rp' = [rp EXCEPT ![r] = "panicked"]
     ELSE /\ rp' = [rp EXCEPT ![r] = "loop"]
          /\ UNCHANGED hostPanic
  /\ UNCHANGED <<pPanic, handle, rootVars, idCounter, pending, chans, runPc,
                 runErr, closedUpTo, closePc, closeLog, call, calls, noise,
                 pluginVars>>

\* Host.run of invocation r: Decode fails at the end of the plugin's
\* output, RunPlugin returns
RunPluginEnds(r) ==
  /\ rp[r] = "loop"
  /\ proc = "exited"
  /\ rp' = [rp EXCEPT ![r] = "returned"]
  /\ UNCHANGED <<spawned, hostPanic, setupVars, rootVars, hostVars, call, calls,
                 pipeVars, pluginVars>>

\* the context passed to RunPlugin is cancelled
HostCtxCancel ==
  /\ ~hostCtxDone
  /\ runPc # "returned"
  /\ hostCtxDone' = TRUE
  /\ UNCHANGED <<lifeVars, setupVars, rootDone, runRet, hostVars, call, calls, pipeVars,
                 pluginVars>>

\* Host.run: an envelope for a pending slot is decoded and the select
\* takes <-ctx.Done(): the loop returns ctx.Err(), the envelope is dropped
\* and no slot is closed
HostRunCtx ==
  /\ runPc = "loop"
  /\ toHost # <<>>
  /\ Head(toHost).ok
  /\ SlotFor(DecodeEnvelope(Head(toHost))) # 0
  /\ hostCtxDone
  /\ runPc' = "returned"
  /\ runErr' = "context canceled"
  /\ toHost' = <<>>
  /\ UNCHANGED <<lifeVars, setupVars, rootVars,
                 running, wgRun, idCounter, pending, chans, closedUpTo, closePc,
                 closeLog, call, calls, toPlugin, stdinClosed, proc, noise,
                 pluginVars>>

\* a Close that goes on whatever the flag was
WasRunningAlways == TRUE

\* wasRunning := h.running.Swap(false)
WasRunning == running

\* Close: h.running.Swap(false), then h.closer.Close().  closeLog counts
\* the changes of the flag from true to false and the calls of closer.Close
HostClose ==
  /\ running' = FALSE
  /\ IF WasRunning
     THEN /\ stdinClosed' = TRUE
          /\ closePc' = "wait"
          /\ closeLog' = [closeLog EXCEPT !.flips = @ + (IF running THEN 1 ELSE 0),
                                          !.stdin = @ + 1]
     ELSE UNCHANGED <<stdinClosed, closePc, closeLog>>
  /\ UNCHANGED <<lifeVars, setupVars, rootVars,
                 wgRun, idCounter, pending, chans, runPc, runErr, closedUpTo, call, calls,
                 toPlugin, toHost, proc, noise, pluginVars>>

\* Close: h.cmd.Wait() returns once the plugin has exited
HostCloseWait ==
  /\ closePc = "wait"
  /\ proc = "exited"
  /\ closePc' = "done"
  /\ closeLog' = [closeLog EXCEPT !.waits = @ + 1]
  /\ UNCHANGED <<lifeVars, setupVars, rootVars,
                 running, wgRun, idCounter, pending, chans, runPc, runErr,
                 closedUpTo, call, calls, pipeVars, pluginVars>>

----------------------------------------------------------------------------
(* Plugin.Run and Plugin.dispatch *)

Task(ev) ==
  [id |-> ev.ID, method |-> ev.Method, data |-> ev.Data, pc |-> "start",
   loopCtx |-> FALSE, taskCtx |-> FALSE, called |-> FALSE, sawDone |-> FALSE,
   hit |-> FALSE, res |-> NoResult, sent |-> 0, out |-> NoEnvelope,
   twins |-> {}]

\* the cancel function a table entry holds: of which task, created where
CancelFn(t, by) == [task |-> t, by |-> by]

\* a cancel function that ends every request of its task's identifier
FireAll(ts, fn) ==
  [t \in DOMAIN ts |->
     IF ts[t].id = ts[fn.task].id THEN [ts[t] EXCEPT !.loopCtx = TRUE] ELSE ts[t]]

\* cancelFn(): the context it belongs to, and so its children, become done
Fire(ts, fn) ==
  IF fn.by = "loop" THEN [ts EXCEPT ![fn.task].loopCtx = TRUE]
  ELSE [ts EXCEPT ![fn.task].taskCtx = TRUE]

\* ctx.Err() # nil for the context the handler of task t is given, a child
\* of the context Run derived
CtxDone(t) == rootDone \/ tasks[t].loopCtx \/ tasks[t].taskCtx

\* a Run that leaves the table to the dispatch task
StoredLater(tbl, id, t) == tbl

\* Run: p.cancel[e.ID] = cancelFn, before go p.dispatch
Stored(tbl, id, t) == MapPut(tbl, id, CancelFn(t, "loop"))

\* a Run that calls dispatch itself and reads on when the handler returned
LoopWaits == \A t \in DOMAIN tasks : tasks[t].pc = "done"

\* go p.dispatch(ctxCancelable, e): Run goes on to decode the next envelope
\* without waiting for that task or any other
LoopFree == TRUE

\* a Run that never looks at its context
NoRootErr == FALSE

\* Run, top of an iteration: ctx.Err() != nil
RootErr == rootDone

\* the process after an iteration of Run: at the top of the next one Run
\* returns if its context is done, and main passes the value to os.Exit
AfterIteration == IF RootErr THEN "exited" ELSE proc

\* the values Run returned after an iteration: 0 if the context is done
ReturnedAfter == IF RootErr THEN Append(runRet, 0) ELSE runRet

\* a Run that takes an envelope for a cancelation message only if it has
\* no identifier
IsCancelOnly(e) == e.Cancel # "" /\ e.ID = ""

\* Run: case e.Cancel != ""
IsCancel(e) == e.Cancel # ""

\* the tasks of identifier id whose dispatch has not finished
Live(id) == {t \in DOMAIN tasks : tasks[t].id = id /\ tasks[t].pc # "done"}

\* Run: a request is decoded, its cancel function stored, dispatch started.
\* twins records the unfinished tasks that have the request's identifier
PluginRunRequest ==
  /\ proc = "alive"
  /\ LoopFree
  /\ toPlugin # <<>>
  /\ LET e == DecodeEnvelope(Head(toPlugin))
     IN /\ ~IsCancel(e)
        /\ e.ID # ""
        /\ cancel' = Stored(cancel, e.ID, Len(tasks) + 1)
        /\ tasks' = Append(tasks, [Task(e) EXCEPT !.twins = Live(e.ID)])
  /\ toPlugin' = Tail(toPlugin)
  /\ proc' = AfterIteration
  /\ runRet' = ReturnedAfter
  /\ UNCHANGED <<lifeVars, setupVars, hostCtxDone, rootDone,
                 hostVars, call, calls, stdinClosed, toHost, noise>>

\* a Run that cancels some request when the one named is not in the table
CancelledSome(ts, tbl, id) ==
  IF id \in DOMAIN tbl THEN Fire(ts, tbl[id])
  ELSE IF tbl # NoEntries THEN Fire(ts, tbl[CHOOSE i \in DOMAIN tbl : TRUE])
  ELSE ts

\* the tasks after Run handled a cancelation message for id: the stored
\* function is called; hit records that the task's handler had not returned
Cancelled(ts, tbl, id) ==
  IF id \in DOMAIN tbl
  THEN Fire(ts, tbl[id])
  ELSE ts

\* Run: a cancelation message is decoded
PluginRunCancel ==
  /\ proc = "alive"
  /\ LoopFree
  /\ toPlugin # <<>>
  /\ LET e == DecodeEnvelope(Head(toPlugin))
     IN /\ IsCancel(e)
        /\ tasks' = [t \in DOMAIN tasks |->
                       IF tasks[t].id = e.Cancel /\ tasks[t].pc # "done"
                       THEN [Cancelled(tasks, cancel, e.Cancel)[t] EXCEPT !.hit = TRUE]
                       ELSE Cancelled(tasks, cancel, e.Cancel)[t]]
        /\ cancel' = MapDelete(cancel, e.Cancel)
  /\ toPlugin' = Tail(toPlugin)
  /\ proc' = AfterIteration
  /\ runRet' = ReturnedAfter
  /\ UNCHANGED <<lifeVars, setupVars, hostCtxDone, rootDone,
                 hostVars, call, calls, stdinClosed, toHost, noise>>

\* Run: an envelope with neither cancel nor id is decoded; the panic ends
\* the process, and what it had not read of its stdin goes with it
PluginRunViolation ==
  /\ proc = "alive"
  /\ LoopFree
  /\ toPlugin # <<>>
  /\ LET e == DecodeEnvelope(Head(toPlugin))
     IN ~IsCancel(e) /\ e.ID = ""
  /\ pPanic' = "protocol violation: both \"id\" and \"cancel\" empty"
  /\ proc' = "exited"
  /\ toPlugin' = <<>>
  /\ UNCHANGED <<lifeVars, registry, pRunning, handle, rootVars,
                 hostVars, call, calls, stdinClosed, toHost, noise, pluginVars>>

\* some other program is at the plugin's stdin and writes the line of e
Feed(e) ==
  /\ proc = "alive"
  /\ ~stdinClosed
  /\ Len(toPlugin) + Len(tasks) < MaxFeed
  /\ toPlugin' = Append(toPlugin, EncodeEnvelope(e))
  /\ UNCHANGED <<lifeVars, setupVars, rootVars,
                 hostVars, call, calls, stdinClosed, toHost, proc, noise, pluginVars>>

\* the context passed to Run is cancelled while Run is in Decode
RootCancel ==
  /\ proc = "alive"
  /\ ~rootDone
  /\ rootDone' = TRUE
  /\ UNCHANGED <<lifeVars, setupVars, hostCtxDone, runRet, hostVars, call, calls, pipeVars,
                 pluginVars>>

\* Run is invoked with a context that is done already: it returns 0 at the
\* top of the first iteration and reads nothing
PluginRunDone ==
  /\ proc = "alive"
  /\ idCounter = 0
  /\ ~rootDone
  /\ rootDone' = TRUE
  /\ proc' = "exited"
  /\ runRet' = Append(runRet, 0)
  /\ UNCHANGED <<lifeVars, setupVars, hostCtxDone, hostVars, call, calls, toPlugin,
                 stdinClosed, toHost, noise, pluginVars>>

\* Run: Decode fails at the end of stdin; main passes Run's 0 to os.Exit
PluginRunEOF ==
  /\ proc = "alive"
  /\ LoopFree
  /\ toPlugin = <<>>
  /\ stdinClosed
  /\ proc' = "exited"
  /\ runRet' = Append(runRet, 0)
  /\ UNCHANGED <<lifeVars, setupVars, hostCtxDone, rootDone,
                 hostVars, call, calls, toPlugin, stdinClosed, toHost, noise,
                 pluginVars>>

\* dispatch: its own cancel function replaces the one Run stored
DispatchRegister(t) ==
  /\ proc = "alive"
  /\ tasks[t].pc = "start"
  /\ cancel' = MapPut(cancel, tasks[t].id, CancelFn(t, "task"))
  /\ tasks' = [tasks EXCEPT ![t].pc = "run"]
  /\ UNCHANGED <<lifeVars, setupVars, rootVars,
                 hostVars, call, calls, pipeVars>>

\* the plugin's stdout after one more line.  Host.run decodes nothing behind
\* a line that is no JSON and nothing after it returned, so such bytes are
\* not kept
Written(q, line) ==
  IF runPc = "returned" \/ (\E i \in DOMAIN q : ~q[i].ok) THEN q
  ELSE Append(q, line)

\* the response of dispatch for the handler's return values
Response(id, r) ==
  IF r.isErr THEN Envelope("", id, "", r.msg, NoData)
  ELSE IF ~r.val.nil THEN Envelope("", id, "", "", Marshal(r.val))
  ELSE Envelope("", id, "", "", NoData)

\* an error that names the method and nothing else
UnknownMethodBare(ev) == Envelope("", ev.id, "", ev.method, NoData)

\* out.Error = "unknown method: " + ev.Method
UnknownMethod(ev) == Envelope("", ev.id, "", "unknown method: " \o ev.method, NoData)

\* a response that does not name the request
ReplyUnnamed(ev, ctxDone) == Envelope("", "", "", "response", NoData)

\* what the handler of request ev returns, if there is one
Handled(ev, ctxDone) ==
  IF ev.method \in DOMAIN registry
  THEN Handle(registry[ev.method], ctxDone, ev.data)
  ELSE NoResult

\* the envelope dispatch encodes for request ev
Reply(ev, ctxDone) ==
  IF ev.method \in DOMAIN registry
  THEN Response(ev.id, Handled(ev, ctxDone))
  ELSE UnknownMethod(ev)

\* a dispatch that leaves its entry in the table
NotCleared(tbl, id) == tbl

\* dispatch, deferred: delete(p.cancel, ev.ID)
Cleared(tbl, id) == MapDelete(tbl, id)

\* dispatch: the handler is looked up and run and the response encoded;
\* then the deferred function deletes the entry and calls cancelFn
Dispatch(t) ==
  /\ proc = "alive"
  /\ tasks[t].pc = "run"
  /\ tasks' = [tasks EXCEPT ![t].pc = "done",
                 ![t].out = Reply(tasks[t], CtxDone(t)),
                 ![t].called = (tasks[t].method \in DOMAIN registry),
                 ![t].sawDone = CtxDone(t),
                 ![t].res = Handled(tasks[t], CtxDone(t)),
                 ![t].sent = tasks[t].sent + 1,
                 ![t].taskCtx = TRUE]
  /\ toHost' = Written(toHost, EncodeEnvelope(Reply(tasks[t], CtxDone(t))))
  /\ cancel' = Cleared(cancel, tasks[t].id)
  /\ UNCHANGED <<lifeVars, setupVars, rootVars,
                 hostVars, call, calls, toPlugin, stdinClosed, proc, noise>>

\* a plugin that is some other executable writes a response once more
PluginRepeat(t) ==
  /\ proc = "alive"
  /\ tasks[t].pc = "done"
  /\ tasks[t].sent = 1
  /\ tasks' = [tasks EXCEPT ![t].sent = 2]
  /\ toHost' = Written(toHost, EncodeEnvelope(tasks[t].out))
  /\ UNCHANGED <<lifeVars, setupVars, rootVars,
                 hostVars, call, calls, toPlugin, stdinClosed, proc, noise, cancel>>

\* the plugin process dies (killed, or a panic); what it had not read of
\* its stdin goes with it
PluginCrash ==
  /\ proc = "alive"
  /\ proc' = "exited"
  /\ toPlugin' = <<>>
  /\ UNCHANGED <<lifeVars, setupVars, rootVars,
                 hostVars, call, calls, stdinClosed, toHost, noise, pluginVars>>

\* something in the plugin prints to stdout, which is no envelope
PluginNoise ==
  /\ proc = "alive"
  /\ runPc = "loop"
  /\ ~noise
  /\ noise' = TRUE
  /\ toHost' = Written(toHost, NoiseLine)
  /\ UNCHANGED <<lifeVars, setupVars, rootVars,
                 hostVars, call, calls, toPlugin, stdinClosed, proc, pluginVars>>

----------------------------------------------------------------------------
(* the system *)

Init ==
  /\ running = FALSE
  /\ wgRun = 1
  /\ idCounter = 0
  /\ pending = NoEntries
  /\ chans = NoEntries
  /\ runPc = "unstarted"
  /\ runErr = ""
  /\ closedUpTo = -1
  /\ closePc = "idle"
  /\ closeLog = [flips |-> 0, stdin |-> 0, waits |-> 0]
  /\ call = [c \in Callers |-> IdleCall]
  /\ calls = 0
  /\ toPlugin = <<>>
  /\ stdinClosed = FALSE
  /\ toHost = <<>>
  /\ proc = "none"
  /\ noise = FALSE
  /\ cancel = NoEntries
  /\ tasks = <<>>
  /\ registry = NoEntries
  /\ pRunning = FALSE
  /\ pPanic = ""
  /\ handle = IdleHandle
  /\ hostCtxDone = FALSE
  /\ rootDone = FALSE
  /\ runRet = <<>>
  /\ rp = [r \in Runs |-> "idle"]
  /\ spawned = 0
  /\ hostPanic = ""

\* the arguments of the Calls that run concurrently
ConcurrentInputs ==
  {CallInput("add", GoStruct("AddReq", [a |-> GoInt(2), b |-> GoInt(3)]), "AddResp")}

CallProgress(c) ==
  \/ CallStart(c)
  \/ CallSend(c)
  \/ CallRecv(c)
  \/ CtxCancel(c)
  \/ CallCancel(c)

CallStep(c) ==
  \/ \E in \in ConcurrentInputs : CallInvoke(c, in)
  \/ CallProgress(c)

\* the Calls of testPlugin: any arguments, one Call after the other
SeqCallStep(c) ==
  \/ /\ \A d \in Callers : call[d].pc \in {"idle", "done"}
     /\ \E in \in CallInputs : CallInvoke(c, in)
  \/ CallProgress(c)

DispatchStep(t) ==
  \/ DispatchRegister(t)
  \/ Dispatch(t)

Next ==
  \/ \E c \in Callers : CallStep(c)
  \/ RunPlugin
  \/ RunPluginFails
  \/ HostRunDeliver
  \/ HostRunFails
  \/ HostClose
  \/ HostCloseWait
  \/ PluginRunRequest
  \/ PluginRunCancel
  \/ PluginRunEOF
  \/ \E t \in DOMAIN tasks : DispatchStep(t)
  \/ PluginCrash
  \/ PluginNoise

Spec == Init /\ [][Next]_vars

\* the run of a test: the plugin neither crashes nor writes stray lines
SeqNext ==
  \/ \E c \in Callers : SeqCallStep(c)
  \/ RunPlugin
  \/ RunPluginFails
  \/ HostRunDeliver
  \/ HostRunFails
  \/ HostClose
  \/ HostCloseWait
  \/ PluginRunRequest
  \/ PluginRunCancel
  \/ PluginRunEOF
  \/ \E t \in DOMAIN tasks : DispatchStep(t)

SeqSpec == Init /\ [][SeqNext]_vars

\* the contexts of RunPlugin and of Plugin.Run may be cancelled
CtxNext ==
  \/ Next
  \/ HostCtxCancel
  \/ HostRunCtx
  \/ RootCancel
  \/ PluginRunDone

CtxSpec == Init /\ [][CtxNext]_vars

\* the envelopes fed to the plugin: a request, a cancelation message for
\* it, one that has an identifier and a method as well, and a request
\* without identifier
FeedLines ==
  LET in == CallInput("add", GoStruct("AddReq", [a |-> GoInt(2), b |-> GoInt(3)]),
                      "AddResp")
  IN { Request("1", in),
       Envelope("1", "", "", "", NoData),
       Envelope("1", "2", "add", "", Marshal(in.req)),
       Request("", in) }

\* the plugin alone, fed by a program that is not Host
PluginNext ==
  \/ RunPlugin
  \/ \E e \in FeedLines : Feed(e)
  \/ HostClose
  \/ PluginRunRequest
  \/ PluginRunCancel
  \/ PluginRunViolation
  \/ PluginRunEOF
  \/ \E t \in DOMAIN tasks : DispatchStep(t)

PluginSpec == Init /\ [][PluginNext]_vars

\* RunPlugin invoked more than once, with Close; a panic ends the host
LifeNext ==
  \/ \E r \in Runs : hostPanic = "" /\ RunPluginCheck(r)
  \/ \E r \in Runs : hostPanic = "" /\ RunPluginSpawn(r)
  \/ \E r \in Runs : hostPanic = "" /\ RunPluginEnds(r)
  \/ hostPanic = "" /\ HostClose
  \/ hostPanic = "" /\ HostCloseWait
  \/ \E c \in Callers, in \in ConcurrentInputs : hostPanic = "" /\ CallInvoke(c, in)
  \/ \E c \in Callers : hostPanic = "" /\ CallStart(c)
  \/ PluginRunEOF

LifeSpec == Init /\ [][LifeNext]_vars

\* the plugin is an executable that may repeat a response
DupNext ==
  \/ Next
  \/ \E t \in DOMAIN tasks : PluginRepeat(t)

DupSpec == Init /\ [][DupNext]_vars

\* the plugin's main alone: Handle calls and calls of Run, in any order
HandleNext ==
  \/ \E name \in HandleNames, h \in HandleFns : HandleCheck(name, h)
  \/ HandleStore
  \/ PluginRunStart

HandleSpec == Init /\ [][HandleNext]_vars

----------------------------------------------------------------------------
(* Properties *)

\* the dispatch task of the request with identifier id, 0 if Run read none
TaskOf(id) ==
  IF \E t \in DOMAIN tasks : tasks[t].id = id
  THEN CHOOSE t \in DOMAIN tasks : tasks[t].id = id
  ELSE 0

\* C1: correlation.  Whatever the number of Calls in flight and the order
\* of the plugin's responses, the reader loop puts an envelope only in the
\* slot of the Call that allocated the envelope's id, and the outcome a Call
\* returns from an envelope is built from an envelope carrying its own id.
C1_Correlation ==
  /\ \A n \in DOMAIN chans :
       \A k \in DOMAIN chans[n].buf : chans[n].buf[k].ID = Hex(n)
  /\ \A c \in Callers :
       call[c].got # NoEnvelope =>
         /\ call[c].got.ID = call[c].id
         /\ call[c].out = Result(call[c].got, call[c].in.resp)

\* two Calls in flight, the later one answered first: it has returned its
\* own response while the earlier Call still waits for its handler
C1_Witness ==
  \E c, d \in Callers :
    /\ call[c].pc = "select" /\ call[d].pc = "done"
    /\ 0 < call[c].n /\ call[c].n < call[d].n
    /\ call[d].out.kind = "ok" /\ call[d].got.ID = call[d].id
    /\ TaskOf(call[c].id) # 0 /\ tasks[TaskOf(call[c].id)].pc # "done"

\* the Calls that have returned an outcome built from a response
Answered == {c \in Callers : call[c].pc = "done" /\ call[c].got # NoEnvelope}

\* what the registered handler returns for the request value of Call c,
\* applied to the value itself, under the context its dispatch task saw
Direct(c) ==
  Apply(endpoints[call[c].in.method].fn,
        tasks[TaskOf(call[c].id)].sawDone, call[c].in.req)

C3_ApplicationError ==
  \A c \in Answered :
    LET t == tasks[TaskOf(call[c].id)]
    IN (t.called /\ t.res.isErr) =>
         /\ t.out.Error = t.res.msg
         /\ call[c].out = Outcome("ErrorResponse", t.res.msg, Zero(call[c].in.resp))

\* C4: unknown method.  A request whose method has no handler is answered
\* with one response that carries the request's id and
\* err = "unknown method: <name>", no handler is invoked, and the Call that
\* consumes it returns an ErrorResponse with exactly that message.
C4_UnknownMethod ==
  /\ \A t \in DOMAIN tasks :
       (tasks[t].pc = "done" /\ tasks[t].method \notin DOMAIN endpoints) =>
         /\ ~tasks[t].called
         /\ tasks[t].sent = 1
         /\ tasks[t].out = Envelope("", tasks[t].id, "",
                                    "unknown method: " \o tasks[t].method, NoData)
  /\ \A c \in Answered :
       call[c].in.method \notin DOMAIN endpoints =>
         /\ call[c].out.kind = "ErrorResponse"
         /\ call[c].out.msg = "unknown method: " \o call[c].in.method
         /\ call[c].in.method = "does_not_exist" =>
              call[c].out.msg = "unknown method: does_not_exist"

\* the Call of does_not_exist has returned the error of the plugin
C4_Witness ==
  \E c \in Answered :
    /\ call[c].in.method = "does_not_exist"
    /\ call[c].out.kind = "ErrorResponse"
    /\ call[c].out.msg = "unknown method: does_not_exist"
    /\ ~tasks[TaskOf(call[c].id)].called

\* C5: malformed response.  When the response a Call consumes has no err
\* and its data does not unmarshal into the caller's result type, the Call
\* returns ErrMalformedResponse wrapping the decode failure, and its
\* identifier is no longer in the table of outstanding calls.
C5_MalformedResponse ==
  \A c \in Answered :
    LET u == Unmarshal(call[c].got.Data, call[c].in.resp)
    IN (call[c].got.Error = "" /\ u.err # "") =>
         /\ call[c].out.kind = "ErrMalformedResponse"
         /\ call[c].out.msg = "malformed response: " \o u.err
         /\ call[c].id \notin DOMAIN pending
         /\ call[c].in.method = "malformed_response" =>
              call[c].out.msg =
                "malformed response: json: cannot unmarshal string into Go struct field AddResp.sum of type int"

\* the Call of TestMalformedResponse has returned
C5_Witness ==
  \E c \in Answered :
    /\ call[c].in.method = "malformed_response"
    /\ call[c].got.Error = ""
    /\ call[c].out.kind = "ErrMalformedResponse"
    /\ call[c].id \notin DOMAIN pending

\* the Calls that have returned from the ctx.Done() case of their select
ReturnedOnCtx == {c \in Callers : call[c].pc = "done" /\ call[c].branch = "ctx"}

\* C6 as stated: a Call whose context is cancelled before it consumed a
\* response has removed its entry from the table of outstanding calls and
\* returns the context's error, whether or not the cancelation message
\* could be written.
C6_CancelledCall ==
  \A c \in ReturnedOnCtx :
    /\ call[c].id \notin DOMAIN pending
    /\ call[c].out = Outcome("ctx", "context canceled", Zero(call[c].in.resp))

\* the cancelation messages on the plugin's stdin come after their requests
RequestFirst ==
  \A k \in DOMAIN toPlugin :
    toPlugin[k].v.Cancel # "" =>
      \/ TaskOf(toPlugin[k].v.Cancel) # 0
      \/ \E j \in 1..(k - 1) : toPlugin[j].v.ID = toPlugin[k].v.Cancel

\* C7: cancelation reaches the handler.  The host writes the request of an
\* id before its cancelation message; from the moment Run has read a
\* request, the table holds a cancel function for it as long as its handler
\* has not returned and its context is not done; so a cancelation message
\* that Run handles before the handler returned makes the handler's context
\* done, and a handler that runs after it is invoked with a done context.
C7_CancelReachesHandler ==
  /\ RequestFirst
  /\ \A t \in DOMAIN tasks :
       /\ (tasks[t].pc # "done" /\ ~CtxDone(t)) =>
            /\ tasks[t].id \in DOMAIN cancel
            /\ cancel[tasks[t].id].task = t
       /\ tasks[t].hit => CtxDone(t)
       /\ (tasks[t].hit /\ tasks[t].pc = "done" /\ tasks[t].called) => tasks[t].sawDone

\* a handler was invoked with a done context after Run handled the
\* cancelation message of its request, and answered with the context's error
C7_Witness ==
  \E t \in DOMAIN tasks :
    /\ tasks[t].hit /\ tasks[t].pc = "done"
    /\ tasks[t].called /\ tasks[t].sawDone
    /\ tasks[t].out.Error = "context canceled"

DecodeErrors == {"invalid character", "EOF", "file already closed"}

C9_FailsImmediately ==
  \A c \in Callers : call[c].pc = "wait" => ENABLED CallStart(c)

\* C9, amended: a Call invoked before RunPlugin has released wgRun blocks in
\* h.wgRun.Wait(); until then no Call has allocated an identifier, registered
\* or written an envelope, and none has returned.  A Call returns ErrClosed
\* without an identifier only after the release, when the Host is not Running.
C9_BlocksUntilStarted ==
  /\ wgRun > 0 =>
       /\ idCounter = 0 /\ pending = NoEntries /\ toPlugin = <<>>
       /\ \A c \in Callers :
            /\ call[c].pc \in {"idle", "wait"}
            /\ ~ENABLED CallStart(c)
  /\ \A c \in Callers :
       (call[c].pc = "done" /\ call[c].n = 0) =>
         /\ wgRun = 0 /\ ~running
         /\ call[c].out = Outcome("ErrClosed", "closed", Zero(call[c].in.resp))

\* a Call is blocked on a Host that was not started
C9_Witness ==
  \E c \in Callers :
    /\ call[c].pc = "wait" /\ wgRun > 0 /\ runPc = "unstarted"
    /\ ~ENABLED CallStart(c)

\* Call c waits on a slot that nothing will fill or close
Stuck(c) ==
  /\ call[c].pc = "select" /\ ~call[c].ctxDone
  /\ runPc = "returned"
  /\ chans[call[c].n].buf = <<>> /\ ~chans[call[c].n].closed

\* C10 as stated: a Call invoked after the reader loop ended on a decode
\* failure, and before any Close, returns ErrClosed; it neither blocks for
\* ever nor returns another error.
C10_CallAfterStreamEnd ==
  \A c \in Callers :
    call[c].late =>
      /\ ~Stuck(c)
      /\ call[c].pc = "done" => call[c].out.kind = "ErrClosed"

\* C11: Close is idempotent.  However many Close calls run, one after the
\* other or while an earlier one still waits, the Running flag goes from
\* true to false at most once, the plugin's stdin is closed once, by the
\* call that changed the flag, and the process is waited on once, by that
\* call; a Close that finds the flag false changes nothing.
C11_CloseIdempotent ==
  /\ closeLog.flips <= 1 /\ closeLog.stdin = closeLog.flips
  /\ closeLog.waits <= closeLog.stdin
  /\ closePc = "idle" <=> closeLog.flips = 0
  /\ closePc = "done" <=> closeLog.waits = 1
  /\ closeLog.flips = 1 => ~running /\ stdinClosed

\* a Close has completed on a started Host, and a further Close can run
C11_Witness ==
  /\ closePc = "done" /\ closeLog = [flips |-> 1, stdin |-> 1, waits |-> 1]
  /\ ~running /\ ENABLED HostClose

\* the reader loop is about to decode a response whose id is in no entry
\* of the table of outstanding calls
UnknownResponse ==
  /\ runPc = "loop" /\ toHost # <<>> /\ Head(toHost).ok
  /\ DecodeEnvelope(Head(toHost)).ID \notin DOMAIN pending

\* Run is about to decode a cancelation message whose target is in no entry
\* of the table of cancel functions
UnknownCancel ==
  /\ proc = "alive" /\ toPlugin # <<>>
  /\ DecodeEnvelope(Head(toPlugin)).Cancel # ""
  /\ DecodeEnvelope(Head(toPlugin)).Cancel \notin DOMAIN cancel

\* C12: unknown identifiers are ignored.  The step of the reader loop that
\* consumes a response with an unknown id, and the step of Run that consumes
\* a cancelation message with an unknown target, change neither table, write
\* nothing, end neither loop, and leave every Call and every dispatch task
\* as it was.
C12_UnknownIgnored ==
  [][ /\ (UnknownResponse /\ toHost' = Tail(toHost) /\ runPc' = runPc) =>
           UNCHANGED <<running, wgRun, idCounter, pending, chans, runPc, runErr,
                       closedUpTo, call, toPlugin, stdinClosed, proc, cancel, tasks>>
      /\ (UnknownCancel /\ toPlugin' = Tail(toPlugin) /\ proc' = proc) =>
           UNCHANGED <<hostVars, call, toHost, stdinClosed, proc, cancel, tasks>>
    ]_vars

\* a response of a Call that has returned and the cancelation message of a
\* request that has been answered are both about to be decoded, while
\* another Call is outstanding
C12_Witness ==
  /\ UnknownResponse /\ UnknownCancel
  /\ ENABLED HostRunDeliver /\ ENABLED PluginRunCancel
  /\ pending # NoEntries

\* C13: no head-of-line blocking on the plugin.  Whatever handlers are
\* still running, Run can decode the next envelope on its input: a request
\* gets a dispatch task of its own, a cancelation message is handled.
C13_NoHeadOfLineBlocking ==
  (proc = "alive" /\ toPlugin # <<>>) =>
    LET e == DecodeEnvelope(Head(toPlugin))
    IN /\ (e.Cancel = "" /\ e.ID # "") => ENABLED PluginRunRequest
       /\ e.Cancel # "" => ENABLED PluginRunCancel

\* two requests were in flight at once and the later one is answered first:
\* its response is written while the handler of the earlier one runs
C13_Witness ==
  \E t, u \in DOMAIN tasks :
    /\ t < u
    /\ tasks[t].pc # "done" /\ tasks[t].method \in DOMAIN endpoints
    /\ tasks[u].pc = "done" /\ tasks[u].sent = 1
    /\ \E k \in DOMAIN toHost : toHost[k].ok /\ toHost[k].v = tasks[u].out

\* the keys of the line a dispatch task wrote
WireKeys(t) == EncodeEnvelope(tasks[t].out).keys

\* C14 as stated: every response the plugin writes carries exactly one of
\* err and data, whether the handler succeeded, failed or was not found.
C14_ResponseShape ==
  \A t \in DOMAIN tasks :
    tasks[t].sent > 0 => (("err" \in WireKeys(t)) # ("data" \in WireKeys(t)))

\* C15 as stated: a request the host writes has the keys id and method
\* and neither cancel nor err; a cancelation message has the key cancel and
\* no other; a response the plugin writes has neither method nor cancel.
C15_FieldPresence ==
  /\ \A k \in DOMAIN toPlugin :
       IF toPlugin[k].v.Cancel = ""
       THEN /\ {"id", "method"} \subseteq toPlugin[k].keys
            /\ toPlugin[k].keys \cap {"cancel", "err"} = {}
       ELSE toPlugin[k].keys = {"cancel"}
  /\ \A k \in DOMAIN toHost :
       toHost[k].ok => toHost[k].keys \cap {"method", "cancel"} = {}

\* C16: handler registration is frozen at Run.  A Handle call made once
\* Run was invoked panics with "add handlers before invoking Run" and
\* leaves the registry as it was; no call passes Handle's check after Run
\* was invoked.  The registry changes only by the store of a Handle call
\* that passed the check before Run, and that store puts the handler under
\* its name, in place of the one registered there, and keeps every other
\* entry.
C16_RegistrationFrozen ==
  [][ /\ \A name \in HandleNames, h \in HandleFns :
           (pRunning /\ HandleCheck(name, h)) =>
             /\ pPanic' = "add handlers before invoking Run"
             /\ registry' = registry
      /\ (handle.pc = "idle" /\ handle'.pc = "checked") => ~pRunning
      /\ registry' # registry =>
           /\ handle.pc = "checked"
           /\ DOMAIN registry' = DOMAIN registry \cup {handle.name}
           /\ registry'[handle.name] = handle.h
           /\ \A n \in DOMAIN registry \ {handle.name} : registry'[n] = registry[n]
    ]_vars

\* Handle panicked after Run was invoked; handlers had been registered
\* under both names before
C16_Witness ==
  /\ pPanic = "add handlers before invoking Run"
  /\ pRunning
  /\ handle.pc = "idle"
  /\ DOMAIN registry = HandleNames
  /\ registry["add"] = endpoints.notify

C19_LoopStopsOnCancel ==
  (hostCtxDone /\ runPc = "loop") => ENABLED (HostRunCtx \/ HostRunFails)

\* C18: identifier uniqueness.  A Call that is assigned an identifier
\* takes the new value of the counter, which is greater than the value
\* before, and its identifier, the counter in hexadecimal, differs from the
\* identifier of every value the counter had before, so from every
\* identifier issued earlier; the counter never decreases.  The Calls in
\* progress hold pairwise different identifiers and so do the requests the
\* plugin has read.
C18_UniqueIdentifiers ==
  [][ /\ idCounter' >= idCounter
      /\ \A c \in Callers :
           (call'[c].n # call[c].n /\ call'[c].n # 0) =>
             /\ call'[c].n = idCounter'
             /\ idCounter' > idCounter
             /\ call'[c].id = Hex(call'[c].n)
             /\ \A m \in 1..idCounter : Hex(m) # call'[c].id
             /\ call'[c].id \notin DOMAIN pending
      /\ \A c, d \in Callers :
           (c # d /\ call'[c].n # 0 /\ call'[d].n # 0) =>
             call'[c].id # call'[d].id /\ call'[c].n # call'[d].n
      /\ \A t, u \in DOMAIN tasks' : t # u => tasks'[t].id # tasks'[u].id
    ]_vars

\* two Calls are in progress at once, each with its identifier
C18_Witness ==
  /\ idCounter = 2
  /\ \A c \in {1, 2} : call[c].pc \in {"send", "select"} /\ call[c].n # 0
  /\ call[1].id # call[2].id
  /\ {call[1].id, call[2].id} = {"1", "2"}

\* C20: startup hand-off.  Whatever the outcome of RunPlugin, once it has
\* wired the encoder or returned, no Call is left blocked waiting for
\* startup: the Call can go on.  A Call that got past the wait finds the
\* encoder set.
C20_StartupHandOff ==
  \A c \in Callers :
    /\ (call[c].pc = "wait" /\ runPc # "unstarted") => ENABLED CallStart(c)
    /\ call[c].pc \in {"send", "select"} => proc # "none"

\* C21: one response per request.  A dispatch task writes one envelope,
\* when its handler has returned or was not found, and none before or
\* after; the envelope carries the identifier of the request and is no
\* request and no cancelation message, whether the handler succeeded,
\* failed, was cancelled or does not exist.  Run writes nothing when it
\* reads a cancelation message.
C21_OneResponse ==
  [][ /\ \A t \in DOMAIN tasks' :
           /\ tasks'[t].sent <= 1
           /\ tasks'[t].sent = 1 <=> tasks'[t].pc = "done"
      /\ \A t \in DOMAIN tasks :
           tasks'[t].sent # tasks[t].sent =>
             /\ tasks'[t].out.ID = tasks[t].id
             /\ tasks'[t].out.Cancel = "" /\ tasks'[t].out.Method = ""
             /\ toHost' = Written(toHost, EncodeEnvelope(tasks'[t].out))
      /\ PluginRunCancel =>
           /\ toHost' = toHost
           /\ \A t \in DOMAIN tasks : tasks'[t].sent = tasks[t].sent
    ]_vars

\* a handler that was cancelled has returned and its one response is on
\* the plugin's stdout
C21_Witness ==
  \E t \in DOMAIN tasks :
    /\ tasks[t].pc = "done" /\ tasks[t].hit /\ tasks[t].sawDone
    /\ tasks[t].sent = 1
    /\ \E k \in DOMAIN toHost : toHost[k].ok /\ toHost[k].v = tasks[t].out

\* C22 as stated: the entry of a Call is in the table when its request is
\* written, Host.run removes no entry, and the table holds no entry for the
\* identifier of a Call that has returned, whatever it returned.
C22_TableDiscipline ==
  /\ \A c \in Callers :
       call[c].pc = "send" => call[c].id \in DOMAIN pending
  /\ \A c \in Callers :
       (call[c].pc = "done" /\ call[c].n # 0) => call[c].id \notin DOMAIN pending

\* C23: cancellation-control table discipline.  A task has an entry under
\* its identifier from before it is started, written by Run and written
\* again by the task before it calls the handler, unless a cancelation
\* message has taken it out; a task whose handler has returned has none;
\* so the table is empty whenever every task Run started has finished, and
\* it never holds an identifier of no task.
C23_CancelTable ==
  /\ \A t \in DOMAIN tasks :
       /\ (tasks[t].pc = "start" /\ ~tasks[t].loopCtx) =>
            /\ tasks[t].id \in DOMAIN cancel
            /\ cancel[tasks[t].id] = CancelFn(t, "loop")
       /\ (tasks[t].pc = "run" /\ ~tasks[t].taskCtx) =>
            /\ tasks[t].id \in DOMAIN cancel
            /\ cancel[tasks[t].id] = CancelFn(t, "task")
       /\ tasks[t].pc = "done" => tasks[t].id \notin DOMAIN cancel
  /\ \A i \in DOMAIN cancel :
       \E t \in DOMAIN tasks :
         /\ tasks[t].id = i /\ tasks[t].pc # "done"
         /\ cancel[i].task = t
  /\ (\A t \in DOMAIN tasks : tasks[t].pc = "done") => cancel = NoEntries

\* a cancelation message removed the entry Run had stored, the task wrote
\* its own, the handler returned, and the table is empty
C23_Witness ==
  /\ cancel = NoEntries
  /\ \E t \in DOMAIN tasks :
       tasks[t].pc = "done" /\ tasks[t].loopCtx /\ tasks[t].called
  /\ \A t \in DOMAIN tasks : tasks[t].pc = "done"

\* C24 as stated: the reader loop never blocks on a consumer.  Whatever
\* envelopes the plugin has written, a reader loop that has a decodable
\* envelope before it can hand it on, or drop it, and go on to the next.
C24_ReaderNeverBlocks ==
  (runPc = "loop" /\ toHost # <<>> /\ Head(toHost).ok) => ENABLED HostRunDeliver

\* Call c has released h.mu after storing its slot and has not returned
\* from h.enc.Encode: nothing stands between the two, so the goroutine is
\* in Encode, or enters it at its next instruction
Encoding(c) == call[c].pc = "send"

\* C25 as stated: writes are serialized.  No two Calls are in Encode on the
\* host's one encoder at a time, and every line on the plugin's stdin is
\* one whole envelope.
C25_WritesSerialized ==
  /\ \A c, d \in Callers : (c # d /\ Encoding(c)) => ~Encoding(d)
  /\ \A k \in DOMAIN toPlugin : toPlugin[k].ok

\* C26: protocol violation.  When Run takes an envelope that has neither
\* cancel nor id, the process ends in the panic "protocol violation", no
\* task is started and nothing is written.  When Run takes an envelope
\* with a cancel, whatever its id, method and data, no task is started, no
\* task changes its position, nothing is written, there is no panic, and
\* the table has no entry for the identifier named.
C26_ProtocolViolation ==
  [][ (proc = "alive" /\ toPlugin # <<>> /\ Len(toPlugin') < Len(toPlugin)) =>
        LET e == DecodeEnvelope(Head(toPlugin))
        IN /\ (e.Cancel = "" /\ e.ID = "") =>
                /\ proc' = "exited"
                /\ pPanic' = "protocol violation: both \"id\" and \"cancel\" empty"
                /\ tasks' = tasks /\ cancel' = cancel /\ toHost' = toHost
           /\ e.Cancel # "" =>
                /\ Len(tasks') = Len(tasks)
                /\ \A t \in DOMAIN tasks : tasks'[t].pc = tasks[t].pc
                /\ toHost' = toHost
                /\ pPanic' = pPanic /\ proc' = "alive"
                /\ e.Cancel \notin DOMAIN cancel'
    ]_vars

\* the plugin handled a request and a cancelation message for it and then
\* ended on an envelope without cancel and id
C26_Witness ==
  /\ pPanic = "protocol violation: both \"id\" and \"cancel\" empty"
  /\ proc = "exited"
  /\ \E t \in DOMAIN tasks : tasks[t].hit

\* C28 as stated: of two requests with one identifier that are handled at
\* the same time, the one that finishes first removes the entry, and from
\* then on the table holds no control of the other.
C28_FirstFinisherDisarms ==
  \A u \in DOMAIN tasks : \A t \in tasks[u].twins :
    \A a, b \in {t, u} :
      (tasks[a].pc = "done" /\ tasks[b].pc # "done") =>
        ~(tasks[b].id \in DOMAIN cancel /\ cancel[tasks[b].id].task = b)

\* C28, amended: a request whose identifier is that of unfinished tasks is
\* dispatched like any other and its control replaces the entry.  The
\* table holds one control per identifier, of an unfinished task of that
\* identifier.  A cancelation message makes the context of at most one
\* task done.  A task that finishes leaves no entry under its identifier,
\* whichever task had written it; of two such tasks, the one still running
\* has a control in the table after the other finished only if its
\* dispatch task has written its own since.
C28_DuplicateLive ==
  [][ /\ (PluginRunRequest /\ Live(DecodeEnvelope(Head(toPlugin)).ID) # {}) =>
           /\ Len(tasks') = Len(tasks) + 1
           /\ tasks'[Len(tasks')].pc = "start"
           /\ cancel'[tasks'[Len(tasks')].id] = CancelFn(Len(tasks'), "loop")
           /\ pPanic' = "" /\ proc' = "alive"
      /\ \A i \in DOMAIN cancel' :
           /\ cancel'[i].task \in DOMAIN tasks'
           /\ tasks'[cancel'[i].task].id = i
           /\ tasks'[cancel'[i].task].pc # "done"
      /\ PluginRunCancel =>
           Cardinality({t \in DOMAIN tasks :
                          (tasks'[t].loopCtx \/ tasks'[t].taskCtx) #
                          (tasks[t].loopCtx \/ tasks[t].taskCtx)}) <= 1
      /\ \A t \in DOMAIN tasks :
           (tasks[t].pc # "done" /\ tasks'[t].pc = "done") =>
             tasks[t].id \notin DOMAIN cancel'
      /\ \A u \in DOMAIN tasks' : \A t \in tasks'[u].twins :
           \A a, b \in {t, u} :
             ( /\ tasks'[a].pc = "done" /\ tasks'[b].pc # "done"
               /\ tasks'[b].id \in DOMAIN cancel'
               /\ cancel'[tasks'[b].id].task = b ) =>
               /\ cancel'[tasks'[b].id] = CancelFn(b, "task")
               /\ tasks'[b].pc = "run"
    ]_vars

\* of two requests with one identifier handled at the same time one has
\* finished, and the other has its control in the table
C28_Witness ==
  \E u \in DOMAIN tasks : \E t \in tasks[u].twins :
    \E a, b \in {t, u} :
      /\ tasks[a].pc = "done" /\ tasks[b].pc = "run"
      /\ tasks[b].id \in DOMAIN cancel
      /\ cancel[tasks[b].id] = CancelFn(b, "task")

\* C27 as stated: host lifecycle.  Once Close has taken the Host out of
\* Running, no RunPlugin, Call or Close makes it Running again, and none
\* ends the host process in a panic.
C27_HostLifecycle ==
  closeLog.flips >= 1 => (~running /\ hostPanic = "")

\* C29 as stated: single plugin per Host.  Of the RunPlugin calls made on
\* a Host that no Close has touched, concurrent ones included, at most one
\* starts a plugin process, and one that found the Host Running has not
\* started any.
C29_SinglePlugin ==
  closeLog.flips = 0 =>
    /\ spawned <= 1
    /\ Cardinality({r \in Runs : rp[r] \in {"loop", "returned", "panicked"}}) = spawned

\* C30: slot safety.  The reader loop closes only slots that are open, in
\* the step in which it returns, and it alone closes; a closed slot stays
\* closed and receives no envelope; only the reader loop puts an envelope
\* in a slot; after the loop has returned no slot changes until its Call
\* drops it.
C30_SlotSafety ==
  [][ /\ HostRunFails => \A n \in SlotsToClose : ~chans[n].closed
      /\ \A n \in DOMAIN chans \cap DOMAIN chans' :
           /\ chans[n].closed =>
                chans'[n].closed /\ Len(chans'[n].buf) <= Len(chans[n].buf)
           /\ Len(chans'[n].buf) > Len(chans[n].buf) =>
                runPc = "loop" /\ HostRunDeliver
           /\ (chans'[n].closed /\ ~chans[n].closed) =>
                HostRunFails /\ runPc = "loop" /\ runPc' = "returned"
           /\ runPc = "returned" => chans'[n] = chans[n]
    ]_vars

\* the reader loop has returned and closed the slot of a Call that is
\* still in its select, while another Call has left by its context
C30_Witness ==
  /\ runPc = "returned"
  /\ \E c \in Callers :
       /\ call[c].pc = "select"
       /\ chans[call[c].n].closed
  /\ \E c \in Callers : call[c].pc = "done" /\ call[c].branch = "ctx"

\* C31 as stated: no request is dropped at plugin shutdown.  When Run has
\* returned, every request it handed to a dispatch task has its response
\* written.
C31_NoRequestDropped ==
  runRet # <<>> => \A t \in DOMAIN tasks : tasks[t].pc = "done" /\ tasks[t].sent = 1

\* C32 as stated: Close releases waiters.  Once Close has been invoked on
\* a Host, no Call is left in its select on a slot that nothing will fill
\* or close: every Call can still get its response or ErrClosed.
C32_CloseReleasesWaiters ==
  closePc # "idle" => \A c \in Callers : ~Stuck(c)

\* C33 as stated: no leaked cancellation context.  Once the handler of a
\* request has returned, the context Run derived for the request and the
\* child the dispatch task derived from it have both been cancelled.
C33_NoLeakedContext ==
  \A t \in DOMAIN tasks :
    tasks[t].pc = "done" => (tasks[t].loopCtx /\ tasks[t].taskCtx)
====
